---- MODULE Spec2Model ----
(***************************************************************************)
(* Model of the book builder of tools/modules/book.js: the line loop of    *)
(* build() that segments a Markdown book into a summary and a list of      *)
(* sections, and the steps around it (reading the book, dropping the       *)
(* sentinel's title, loading the template, transpiling, writing).          *)
(*                                                                         *)
(* A line is a sequence of one-character strings.  A title object and a    *)
(* content block carry, besides the fields the code gives them, the        *)
(* history fields ln / lns: the positions in the line sequence they were   *)
(* built from.  The code never reads them.                                 *)
(***************************************************************************)
EXTENDS Integers, Sequences, FiniteSets, TLC

VARIABLES pc, exitCode, lines, pos, summary, sections, sectionBuff,
          titleBuff, mainTitle, lastSlug, counter, firstSection,
          inCodeBlock, html, written, source, bookIndex, alone,
          message

vars == <<pc, exitCode, lines, pos, summary, sections, sectionBuff,
          titleBuff, mainTitle, lastSlug, counter, firstSection,
          inCodeBlock, html, written, source, bookIndex, alone,
          message>>

\* the text read from the book's file, the place of the book in the batch,
\* and the history of the batch: the source and the document model of its
\* first build
batchVars == <<source, bookIndex, alone>>

loopVars == <<summary, sections, sectionBuff, titleBuff, mainTitle,
              lastSlug, counter, firstSection, inCodeBlock>>

(***************************************************************************)
(* Bounds of the model.                                                    *)
(***************************************************************************)
MaxLines == 4

MaxTitles == 6

MaxSlugLen == 3

MaxPieces == 5

MaxBooks == 3

MaxBatchLines == 3

(***************************************************************************)
(* Characters and lines.                                                   *)
(***************************************************************************)
Upper == <<"A","B","C","D","E","F","G","H","I","J","K","L","M",
           "N","O","P","Q","R","S","T","U","V","W","X","Y","Z">>

Lower == <<"a","b","c","d","e","f","g","h","i","j","k","l","m",
           "n","o","p","q","r","s","t","u","v","w","x","y","z">>

Digits == <<"0","1","2","3","4","5","6","7","8","9">>

Range(s) == {s[k] : k \in DOMAIN s}

\* String.prototype.toLocaleLowerCase, one character
toLocaleLowerCase(c) ==
  IF c \in Range(Upper)
    THEN Lower[CHOOSE k \in DOMAIN Upper : Upper[k] = c]
    ELSE c

\* the characters the slug keeps: [a-z0-9-_]
SlugChars == Range(Lower) \cup Range(Digits) \cup {"-", "_"}

\* line.startsWith(prefix)
startsWith(line, prefix) ==
  /\ Len(line) >= Len(prefix)
  /\ SubSeq(line, 1, Len(prefix)) = prefix

\* the backtick character, which a TLA+ string cannot hold
Backtick == "BACKTICK"

Fence == <<Backtick, Backtick, Backtick>>

\* the character U+2028 (line separator), written as a word
LineSeparator == "LS"

\* the characters trim() removes, of those the texts hold
Whitespace == {" ", "\t", LineSeparator}

RECURSIVE trimLeft(_)
trimLeft(s) ==
  IF s # <<>> /\ Head(s) \in Whitespace THEN trimLeft(Tail(s)) ELSE s

RECURSIVE trimRight(_)
trimRight(s) ==
  IF s # <<>> /\ s[Len(s)] \in Whitespace
    THEN trimRight(SubSeq(s, 1, Len(s) - 1))
    ELSE s

\* String.prototype.trim
trim(s) == trimRight(trimLeft(s))

\* the number of leading '#' of a line: the group (#+) of the RegExp
RECURSIVE hashes(_)
hashes(s) ==
  IF s # <<>> /\ Head(s) = "#" THEN 1 + hashes(Tail(s)) ELSE 0

\* the text after the group ' *' of the RegExp
RECURSIVE skipSpaces(_)
skipSpaces(s) ==
  IF s # <<>> /\ Head(s) = " " THEN skipSpaces(Tail(s)) ELSE s

\* line.match(/^(#+) *(.*)$/) on a line that starts with '#':
\* match[1].length and match[2]
match(line) ==
  [depth |-> hashes(line),
   title |-> skipSpaces(SubSeq(line, hashes(line) + 1, Len(line)))]

\* the slug with the special characters removed first
makeSlugStripFirst(title) ==
  LET kept   == SelectSeq(title, LAMBDA c : c \in SlugChars)
      low    == [k \in DOMAIN kept |-> toLocaleLowerCase(kept[k])]
  IN  [k \in DOMAIN low |-> IF low[k] = " " THEN "-" ELSE low[k]]

\* title.toLocaleLowerCase().replace(/ /g, '-').replace(/[^a-z0-9-_]/g, '')
makeSlug(title) ==
  LET low    == [k \in DOMAIN title |-> toLocaleLowerCase(title[k])]
      dashed == [k \in DOMAIN low |-> IF low[k] = " " THEN "-" ELSE low[k]]
  IN  SelectSeq(dashed, LAMBDA c : c \in SlugChars)

(***************************************************************************)
(* The source of the book is a sequence of characters.  Its comments are   *)
(* removed, then it is split into lines.                                   *)
(***************************************************************************)
CommentOpen == <<"<", "!", "-", "-">>

CommentClose == <<"-", "-", ">">>

\* the places from k on where the text holds the word w
placesOf(s, w, k) ==
  {j \in k .. (Len(s) - Len(w) + 1) : SubSeq(s, j, j + Len(w) - 1) = w}

\* the characters '.' does not match: the line terminators of the language
\* (U+2029 is one more, left out of the texts)
LineTerminators == {"\n", "\r", LineSeparator}

\* a character that (.|\r\n|\r|\n) can consume
groupMatches(c) == c \notin LineTerminators \/ c \in {"\r", "\n"}

\* the first '-->' that starts after the '<!--' which opens the text, or 0
firstClose(s) ==
  IF placesOf(s, CommentClose, 5) = {} THEN 0
  ELSE CHOOSE j \in placesOf(s, CommentClose, 5) :
         \A i \in placesOf(s, CommentClose, 5) : j <= i

\* /<!--((.|\r\n|\r|\n)*?)-->/ matches at the start of the text: the lazy
\* group grows one character at a time up to the first '-->'
commentMatches(s) ==
  /\ startsWith(s, CommentOpen)
  /\ firstClose(s) # 0
  /\ \A n \in 5 .. (firstClose(s) - 1) : groupMatches(s[n])

\* source.replace(/<!--((.|\r\n|\r|\n)*?)-->/g, '')
RECURSIVE stripComments(_)
stripComments(s) ==
  IF s = <<>> THEN <<>>
  ELSE IF commentMatches(s)
    THEN stripComments(SubSeq(s, firstClose(s) + 3, Len(s)))
    ELSE <<Head(s)>> \o stripComments(Tail(s))

LineBreaks == {"\r", "\n"}

\* source.split(/\r\n|\r|\n/g)
RECURSIVE split(_)
split(s) ==
  IF \A j \in DOMAIN s : s[j] \notin LineBreaks THEN <<s>>
  ELSE LET i == CHOOSE j \in DOMAIN s :
                  /\ s[j] \in LineBreaks
                  /\ \A n \in 1 .. (j - 1) : s[n] \notin LineBreaks
           w == IF s[i] = "\r" /\ i < Len(s) /\ s[i + 1] = "\n"
                  THEN 2 ELSE 1
       IN  <<SubSeq(s, 1, i - 1)>> \o split(SubSeq(s, i + w, Len(s)))

(***************************************************************************)
(* The Markdown renderer is an external module.  Of mdIt.render the model  *)
(* keeps what the loop depends on: the lines the HTML was made from, and   *)
(* that blank lines alone give no HTML.  mdIt.renderInline is kept as a    *)
(* tagged value over the title.                                            *)
(***************************************************************************)
mdRender(buff) == SelectSeq(buff, LAMBDA l : trim(l) # <<>>)

mdRenderInline(title) == <<"inline", title>>

\* html.trim() is a non-empty string
htmlNotEmpty(h) == h # <<>>

(***************************************************************************)
(* The counters of the title levels.  The array is a function over         *)
(* 0 .. length-1; NaN is what ++ leaves in a slot that held no number, and *)
(* Hole is a slot that was never assigned.                                 *)
(***************************************************************************)
NaN == -1

Hole == -2

counterInit == [k \in 0 .. 4 |-> 0]

counterLength(c) == Cardinality(DOMAIN c)

\* the increment left out
counterNoIncrement(c, depth) == c

\* counter[depth] ++
counterIncrement(c, depth) ==
  IF depth \in DOMAIN c
    THEN [c EXCEPT ![depth] = IF @ >= 0 THEN @ + 1 ELSE NaN]
    ELSE [k \in 0 .. depth |->
            IF k \in DOMAIN c THEN c[k]
            ELSE IF k = depth THEN NaN ELSE Hole]

\* the reset of the deeper levels left out
counterNoReset(c, depth) == c

\* for (let i = depth + 1; i < counter.length; i++) counter[i] = 0
counterReset(c, depth) ==
  [k \in DOMAIN c |-> IF k > depth THEN 0 ELSE c[k]]

\* the decimal digits of a natural number
RECURSIVE numberToString(_)
numberToString(n) ==
  IF n < 10 THEN <<Digits[n + 1]>>
  ELSE numberToString(n \div 10) \o <<Digits[(n % 10) + 1]>>

\* counter.filter(c => c > 0): holes are skipped, NaN > 0 is false
RECURSIVE filterPositive(_, _)
filterPositive(c, k) ==
  IF k >= counterLength(c) THEN <<>>
  ELSE IF c[k] > 0
    THEN <<c[k]>> \o filterPositive(c, k + 1)
    ELSE filterPositive(c, k + 1)

\* numbers.join('.')
RECURSIVE join(_)
join(nums) ==
  IF nums = <<>> THEN <<>>
  ELSE IF Len(nums) = 1 THEN numberToString(nums[1])
  ELSE numberToString(Head(nums)) \o <<".">> \o join(Tail(nums))

\* the label made of all the counters, the zeros too
prettydepthNoFilter(c, depth) ==
  IF depth = 1 THEN <<"0", ".">>
  ELSE join([k \in 1 .. counterLength(c) |->
               IF c[k - 1] > 0 THEN c[k - 1] ELSE 0]) \o <<".">>

\* (depth === 1) ? '0.' : counter.filter(c => c > 0).join('.') + '.'
prettydepth(c, depth) ==
  IF depth = 1 THEN <<"0", ".">> ELSE join(filterPositive(c, 0)) \o <<".">>

(***************************************************************************)
(* The documents.                                                          *)
(***************************************************************************)
Sentinel == <<"#","#"," ","E","N","D"," ","O","F"," ","F","I","L","E">>

LineBlank  == <<" ">>
LineText   == <<"x">>
LineFence  == <<Backtick, Backtick, Backtick>>
LineTitle  == <<"#"," ","T">>
LineSecA   == <<"#","#"," ","A">>
LineSecB   == <<"#","#"," ","B","!">>
LineSub    == <<"#","#","#"," ","C">>
LineSubSub == <<"#","#","#","#"," ","D">>
LineDeep   == <<"#","#","#","#","#"," ","E">>

LinePool == {LineBlank, LineText, LineFence, LineTitle, LineSecA, LineSecB,
             LineSub, LineSubSub, LineDeep}

TitlePool == {LineTitle, LineSecA, LineSub, LineSubSub}

DeepTitlePool == TitlePool \cup {LineDeep}

SeqsUpTo(S, n) == UNION {[1 .. k -> S] : k \in 1 .. n}

\* the text of a file whose lines are these
RECURSIVE joinLines(_)
joinLines(ls) ==
  IF Len(ls) = 1 THEN ls[1]
  ELSE ls[1] \o <<"\n">> \o joinLines(Tail(ls))

\* the texts of the files of a set of books given by their lines
Sources(B) == {joinLines(b) : b \in B}

Books == SeqsUpTo(LinePool, MaxLines)

TitleBooks == SeqsUpTo(TitlePool, MaxTitles)

DeepTitleBooks == SeqsUpTo(DeepTitlePool, MaxTitles)

\* books with lines that start with '#' without the shape of a title
LineNoSpace  == <<"#","#","x">>
LineNoText   == <<"#","#","#">>
LineMainNoSpace == <<"#","y">>

ShapePool == {LineBlank, LineText, LineTitle, LineSecA,
              LineNoSpace, LineNoText, LineMainNoSpace}

ShapeBooks == SeqsUpTo(ShapePool, MaxLines)

\* books of one title, whose text is any text over a small alphabet
SlugAlphabet == {"A", "b", "9", " ", "!", "-", "_"}

HelloWorld == <<"H","e","l","l","o"," ","W","o","r","l","d","!">>

SlugTexts == {<<>>, HelloWorld} \cup SeqsUpTo(SlugAlphabet, MaxSlugLen)

SlugBooks == {<< <<"#", " ">> \o t >> : t \in SlugTexts}

\* books whose titles have the same slug, or an empty one
LineSecLower == <<"#","#"," ","a">>
LineSecBang  == <<"#","#"," ","A","!">>
LineSecEmpty == <<"#","#"," ","!">>
LineSubA     == <<"#","#","#"," ","A">>

DupPool == {LineText, LineTitle, LineSecA, LineSecLower, LineSecBang,
            LineSecEmpty, LineSubA}

DupBooks == SeqsUpTo(DupPool, MaxLines)

\* the books of a batch
BatchPool == {LineTitle, LineSecA, LineSub, LineFence}

BatchBooks == SeqsUpTo(BatchPool, MaxBatchLines)

\* texts with comments: any run of a few pieces, a piece being a line with
\* its line break, a text, or the opening or the closing of a comment
PieceTitle == <<"#", " ", "T", "\n">>
PieceHead  == <<"#", " ", "T", "\n", "#", "#", " ", "Z", "\n">>
PieceSec   == <<"#", "#", " ", "Z", "\n">>
PieceText  == <<"z">>
PieceLS    == <<LineSeparator, "\n">>

PiecePool == {PieceTitle, PieceHead, PieceSec, PieceText, PieceLS,
              CommentOpen, CommentClose}

RECURSIVE concat(_)
concat(ps) == IF ps = <<>> THEN <<>> ELSE Head(ps) \o concat(Tail(ps))

CommentSources(n) == {concat(ps) : ps \in SeqsUpTo(PiecePool, n)}

\* the value of a variable that was not assigned
Undefined == [undefined |-> TRUE]

\* the failures of build() and the exit code each call of error() gives
exitCodeOf(failure) ==
  CASE failure = "noBookName"             -> 6
    [] failure = "unknownBook"            -> 7
    [] failure = "fileNotFound"           -> 8
    [] failure = "readFailed"             -> 7
    [] failure = "mainTitleNotFound"      -> 9
    [] failure = "duplicateMainTitle"     -> 10
    [] failure = "contentOutsideSections" -> 11
    [] failure = "templateFolderNotFound" -> 12
    [] failure = "templateFileNotFound"   -> 13
    [] failure = "templateReadFailed"     -> 14
    [] failure = "resourceNotFound"       -> 15
    [] failure = "resourceReadFailed"     -> 16
    [] failure = "writeFailed"            -> 15

\* the failure of a line that was refused with this code
lineFailure(code) ==
  CASE code = 9  -> "mainTitleNotFound"
    [] code = 10 -> "duplicateMainTitle"
    [] code = 11 -> "contentOutsideSections"

\* an error function that reports the failure and lets the build go on
errorReturns(failure) ==
  /\ pc' = "pop"
  /\ exitCode' = exitCodeOf(failure)
  /\ message' = failure

(***************************************************************************)
(* error(message, code): the build tools' function that reports the        *)
(* message and abandons the build with the code.                           *)
(***************************************************************************)
error(failure) ==
  /\ pc' = "error"
  /\ exitCode' = exitCodeOf(failure)
  /\ message' = failure

Init ==
  /\ pc = "start"
  /\ exitCode = 0
  /\ lines = <<>>
  /\ pos = 1
  /\ summary = <<>>
  /\ sections = <<>>
  /\ sectionBuff = <<>>
  /\ titleBuff = <<>>
  /\ mainTitle = Undefined
  /\ lastSlug = <<>>
  /\ counter = counterInit
  /\ firstSection = TRUE
  /\ inCodeBlock = FALSE
  /\ html = Undefined
  /\ written = FALSE
  /\ source = <<>>
  /\ bookIndex = 1
  /\ alone = Undefined
  /\ message = ""

(***************************************************************************)
(* build(), up to the line loop: the checks of the book's name and file,   *)
(* the reading of the source, and the initial values of the loop's         *)
(* variables.  The text read is any text of the set D; its comments are    *)
(* removed, it is split into lines (split() gives at least one line), and  *)
(* the sentinel is appended to the lines.                                  *)
(***************************************************************************)
\* the counters declared outside build(): they are kept from build to build
loopInitKeepsCounter ==
  /\ summary' = <<>>
  /\ sections' = <<>>
  /\ sectionBuff' = <<>>
  /\ titleBuff' = <<>>
  /\ mainTitle' = Undefined
  /\ lastSlug' = <<>>
  /\ counter' = counter
  /\ firstSection' = TRUE
  /\ inCodeBlock' = FALSE

\* the declarations of build(): let summary = [], ..., let counter =
\* [0, 0, 0, 0, 0], let firstSection = true, let inCodeBlock = false
loopInit ==
  /\ summary' = <<>>
  /\ sections' = <<>>
  /\ sectionBuff' = <<>>
  /\ titleBuff' = <<>>
  /\ mainTitle' = Undefined
  /\ lastSlug' = <<>>
  /\ counter' = counterInit
  /\ firstSection' = TRUE
  /\ inCodeBlock' = FALSE

ReadBook(D) ==
  /\ pc = "start"
  /\ \E outcome \in {"ok", "noBookName", "unknownBook", "fileNotFound",
                     "readFailed"} :
       IF outcome = "ok"
         THEN /\ \E text \in D :
                   /\ source' = text
                   /\ lines' = split(stripComments(text)) \o <<Sentinel>>
              /\ pc' = "loop"
              /\ exitCode' = 0
              /\ message' = message
         ELSE /\ error(outcome)
              /\ lines' = <<>>
              /\ source' = <<>>
  /\ pos' = 1
  /\ loopInit
  /\ UNCHANGED <<html, written, bookIndex, alone>>

(***************************************************************************)
(* One iteration of the line loop.                                         *)
(***************************************************************************)
\* if (line.startsWith('```')) inCodeBlock = ! inCodeBlock
toggleCodeBlock(line, inCode) ==
  IF startsWith(line, Fence) THEN ~inCode ELSE inCode

\* the test of a title that asks for hashes, a space and a text
isTitleWellShaped(line, inCode) ==
  /\ startsWith(line, <<"#">>)
  /\ ~toggleCodeBlock(line, inCode)
  /\ hashes(line) < Len(line)
  /\ line[hashes(line) + 1] = " "
  /\ match(line).title # <<>>

\* the test of a title without the test of the code block
isTitleInCodeBlock(line, inCode) == startsWith(line, <<"#">>)

\* line.startsWith('#') && ! inCodeBlock, after the toggle
isTitle(line, inCode) ==
  startsWith(line, <<"#">>) /\ ~toggleCodeBlock(line, inCode)

\* the flush without the test of the rendered HTML
flushTitleBuffAlways(secBuff, buff, depth) ==
  IF depth >= 2
    THEN Append(secBuff,
                [_CONTENT |-> TRUE,
                 html     |-> mdRender([k \in DOMAIN buff |-> buff[k].text]),
                 lns      |-> [k \in DOMAIN buff |-> buff[k].ln]])
    ELSE secBuff

\* the section buffer after the title buffer was rendered into it
flushTitleBuff(secBuff, buff, depth) ==
  IF depth >= 2 /\ htmlNotEmpty(mdRender([k \in DOMAIN buff |-> buff[k].text]))
    THEN Append(secBuff,
                [_CONTENT |-> TRUE,
                 html     |-> mdRender([k \in DOMAIN buff |-> buff[k].text]),
                 lns      |-> [k \in DOMAIN buff |-> buff[k].ln]])
    ELSE secBuff

\* the section pushed with the slug of the title that closes it
closeSectionNewSlug(secs, secBuff, depth, first, slug) ==
  IF depth = 2 /\ ~first
    THEN Append(secs, [slug    |-> makeSlug(match(lines[pos]).title),
                       content |-> secBuff])
    ELSE secs

\* the list of sections after a title of this depth
closeSection(secs, secBuff, depth, first, slug) ==
  IF depth = 2 /\ ~first
    THEN Append(secs, [slug |-> slug, content |-> secBuff])
    ELSE secs

\* the section buffer after a title of this depth
resetSectionBuff(secBuff, depth, first) ==
  IF depth = 2 /\ ~first THEN <<>> ELSE secBuff

\* the counters advanced for the main title too
advanceCounterAlways(c, depth) ==
  counterReset(counterIncrement(c, depth), depth)

\* the counters after a title of this depth
advanceCounter(c, depth) ==
  IF depth # 1 THEN counterReset(counterIncrement(c, depth), depth) ELSE c

\* the title's object
makeTitleObj(title, slug, depth, sectionSlug, c, ln) ==
  [_TITLE        |-> TRUE,
   text          |-> mdRenderInline(title),
   slug          |-> slug,
   depth         |-> depth,
   section_slug  |-> sectionSlug,
   is_main_title |-> depth = 1,
   is_section    |-> depth = 2,
   is_subtitle   |-> depth = 3,
   is_max_subtitle        |-> depth <= 3,
   is_subsubtitle_or_more |-> depth > 3,
   depth_dec     |-> depth - 1,
   prettydepth   |-> prettydepth(c, depth),
   ln            |-> ln]

\* the placement check without the test of a second main title
titleCheckNoDuplicate(sum, depth) ==
  IF sum = <<>>
    THEN IF depth # 1 THEN 9 ELSE 0
    ELSE 0

\* the placement check without the test of a missing main title
titleCheckNoMissing(sum, depth) ==
  IF sum = <<>>
    THEN 0
    ELSE IF depth = 1 THEN 10 ELSE 0

\* the placement check that refuses a title whose slug is taken or empty
titleCheckUniqueSlug(sum, depth) ==
  IF sum = <<>>
    THEN IF depth # 1 THEN 9 ELSE 0
    ELSE IF depth = 1 THEN 10
    ELSE IF \/ makeSlug(match(lines[pos]).title) = <<>>
            \/ \E k \in DOMAIN sum :
                 sum[k].slug = makeSlug(match(lines[pos]).title)
      THEN 10 ELSE 0

\* the placement of a title: the error code, or 0 when the title is accepted
titleCheck(sum, depth) ==
  IF sum = <<>>
    THEN IF depth # 1 THEN 9 ELSE 0
    ELSE IF depth = 1 THEN 10 ELSE 0

\* the test of a line outside a section that lets the main title count
outsideSectionNoTitle(sum) == Len(sum) < 1

\* a line that is not a title is outside a section
outsideSection(sum) == Len(sum) <= 1

\* the check of a line that is not a title left out
contentCheckAccepts(sum, line) == 0

\* the error code of a line that is not a title, or 0 when it is accepted
contentCheck(sum, line) ==
  IF outsideSection(sum) /\ trim(line) # <<>> THEN 11 ELSE 0

nextLine ==
  IF pos = Len(lines)
    THEN pc' = "pop" /\ pos' = pos
    ELSE pc' = "loop" /\ pos' = pos + 1

Step ==
  /\ pc = "loop"
  /\ pos <= Len(lines)
  /\ LET line  == lines[pos]
         depth == match(line).depth
         title == match(line).title
         slug  == makeSlug(title)
         flushed == flushTitleBuff(sectionBuff, titleBuff, depth)
         newLastSlug == IF depth = 2 THEN slug ELSE lastSlug
         newCounter  == advanceCounter(counter, depth)
         title_obj == makeTitleObj(title, slug, depth, newLastSlug,
                                   newCounter, pos)
     IN
     /\ inCodeBlock' = toggleCodeBlock(line, inCodeBlock)
     /\ IF isTitle(line, inCodeBlock)
          THEN IF titleCheck(summary, depth) # 0
                 THEN /\ error(lineFailure(titleCheck(summary, depth)))
                      /\ UNCHANGED <<pos, summary, sections, sectionBuff,
                                     titleBuff, mainTitle, lastSlug, counter,
                                     firstSection>>
                 ELSE /\ titleBuff' = IF depth >= 2 THEN <<>> ELSE titleBuff
                      /\ sections' = closeSection(sections, flushed, depth,
                                                  firstSection, lastSlug)
                      /\ firstSection' =
                           IF depth = 2 THEN FALSE ELSE firstSection
                      /\ lastSlug' = newLastSlug
                      /\ counter' = newCounter
                      /\ summary' = Append(summary, title_obj)
                      /\ mainTitle' =
                           IF depth = 1 THEN title_obj ELSE mainTitle
                      /\ sectionBuff' =
                           IF depth = 1 THEN sectionBuff
                           ELSE Append(resetSectionBuff(flushed, depth,
                                                        firstSection),
                                       title_obj)
                      /\ nextLine
                      /\ UNCHANGED <<exitCode, message>>
          ELSE IF contentCheck(summary, line) # 0
                 THEN /\ error(lineFailure(contentCheck(summary, line)))
                      /\ UNCHANGED <<pos, summary, sections, sectionBuff,
                                     titleBuff, mainTitle, lastSlug, counter,
                                     firstSection>>
                 ELSE /\ titleBuff' =
                           IF outsideSection(summary) THEN titleBuff
                           ELSE Append(titleBuff, [text |-> line, ln |-> pos])
                      /\ nextLine
                      /\ UNCHANGED <<exitCode, message, summary, sections,
                                     sectionBuff, mainTitle, lastSlug,
                                     counter, firstSection>>
  /\ UNCHANGED <<lines, html, written, batchVars>>

\* summary.pop() left out
popNothing(s) == s

\* summary.pop()
pop(s) == IF s = <<>> THEN s ELSE SubSeq(s, 1, Len(s) - 1)

PopSummary ==
  /\ pc = "pop"
  /\ summary' = pop(summary)
  /\ pc' = "template"
  /\ UNCHANGED <<exitCode, message, lines, pos, sections, sectionBuff,
                 titleBuff,
                 mainTitle, lastSlug, counter, firstSection, inCodeBlock,
                 html, written, batchVars>>

(***************************************************************************)
(* The template: its folder and file must exist and be readable.           *)
(***************************************************************************)
LoadTemplate ==
  /\ pc = "template"
  /\ \E outcome \in {"ok", "templateFolderNotFound", "templateFileNotFound",
                     "templateReadFailed"} :
       IF outcome = "ok"
         THEN pc' = "transpile" /\ UNCHANGED <<exitCode, message>>
         ELSE error(outcome)
  /\ UNCHANGED <<lines, pos, loopVars, html, written, batchVars>>

(***************************************************************************)
(* handlebars.compile(template)({ title, summary, sections }); the         *)
(* 'include' helper fails when a resource is missing or unreadable.        *)
(***************************************************************************)
Transpile ==
  /\ pc = "transpile"
  /\ \E outcome \in {"ok", "resourceNotFound", "resourceReadFailed"} :
       IF outcome = "ok"
         THEN /\ html' = [title |-> mainTitle, summary |-> summary,
                          sections |-> sections]
              /\ pc' = "write"
              /\ UNCHANGED <<exitCode, message>>
         ELSE /\ error(outcome)
              /\ html' = html
  /\ UNCHANGED <<lines, pos, loopVars, written, batchVars>>

(***************************************************************************)
(* writeFile(output_path, html), then success().                           *)
(***************************************************************************)
WriteOutput ==
  /\ pc = "write"
  /\ \E ok \in BOOLEAN :
       IF ok
         THEN /\ written' = TRUE
              /\ pc' = "done"
              /\ UNCHANGED <<exitCode, message>>
         ELSE written' = written /\ error("writeFailed")
  /\ UNCHANGED <<lines, pos, loopVars, html, batchVars>>

(***************************************************************************)
(* buildAll(): when a build is over, the next book of the list is set as   *)
(* the current one and built.  The output of the finished build stays on   *)
(* the disk as the file of its own book; alone keeps the text and the      *)
(* document model of the first build of the batch.                         *)
(***************************************************************************)
NextBook ==
  /\ pc = "done"
  /\ bookIndex < MaxBooks
  /\ bookIndex' = bookIndex + 1
  /\ alone' = IF bookIndex = 1
                THEN [source |-> source, model |-> html]
                ELSE alone
  /\ pc' = "start"
  /\ html' = Undefined
  /\ written' = FALSE
  /\ UNCHANGED <<exitCode, message, lines, pos, loopVars, source>>

Next ==
  \/ ReadBook(Sources(Books))
  \/ Step
  \/ PopSummary
  \/ LoadTemplate
  \/ Transpile
  \/ WriteOutput

Spec == Init /\ [][Next]_vars

NextTitles ==
  \/ ReadBook(Sources(TitleBooks))
  \/ Step
  \/ PopSummary
  \/ LoadTemplate
  \/ Transpile
  \/ WriteOutput

SpecTitles == Init /\ [][NextTitles]_vars

NextSlug ==
  \/ ReadBook(Sources(SlugBooks))
  \/ Step
  \/ PopSummary
  \/ LoadTemplate
  \/ Transpile
  \/ WriteOutput

NextDeepTitles ==
  \/ ReadBook(Sources(DeepTitleBooks))
  \/ Step
  \/ PopSummary
  \/ LoadTemplate
  \/ Transpile
  \/ WriteOutput

SpecDeepTitles == Init /\ [][NextDeepTitles]_vars

SpecSlug == Init /\ [][NextSlug]_vars

NextShapes ==
  \/ ReadBook(Sources(ShapeBooks))
  \/ Step
  \/ PopSummary
  \/ LoadTemplate
  \/ Transpile
  \/ WriteOutput

SpecShapes == Init /\ [][NextShapes]_vars

NextComments ==
  \/ ReadBook(CommentSources(MaxPieces))
  \/ Step
  \/ PopSummary
  \/ LoadTemplate
  \/ Transpile
  \/ WriteOutput

SpecComments == Init /\ [][NextComments]_vars

NextDup ==
  \/ ReadBook(Sources(DupBooks))
  \/ Step
  \/ PopSummary
  \/ LoadTemplate
  \/ Transpile
  \/ WriteOutput

SpecDup == Init /\ [][NextDup]_vars

NextAll ==
  \/ ReadBook(Sources(BatchBooks))
  \/ Step
  \/ PopSummary
  \/ LoadTemplate
  \/ Transpile
  \/ WriteOutput
  \/ NextBook

SpecAll == Init /\ [][NextAll]_vars

(***************************************************************************)
(* The book as a document, read independently of the loop's variables: a   *)
(* line of the book is a title when it starts with '#' and an even number  *)
(* of fence lines came before it.                                          *)
(***************************************************************************)
SentinelPos == Len(lines)

BookPositions == 1 .. (Len(lines) - 1)

FencesUpTo(k) == Cardinality({j \in 1 .. k : startsWith(lines[j], Fence)})

DocIsTitle(k) == startsWith(lines[k], <<"#">>) /\ FencesUpTo(k) % 2 = 0

DocTitles == {k \in BookPositions : DocIsTitle(k)}

DocTitlesOfDepth(d) == {k \in DocTitles : hashes(lines[k]) = d}

RECURSIVE SortedSeq(_)
SortedSeq(S) ==
  IF S = {} THEN <<>>
  ELSE LET m == CHOOSE x \in S : \A y \in S : x <= y
       IN  <<m>> \o SortedSeq(S \ {m})

\* the loop has run to its end without an error
Segmented == pc \in {"pop", "template", "transpile", "write", "done"}

\* the sentinel's title has been dropped from the summary
Popped == pc \in {"template", "transpile", "write", "done"}

\* the items of all the finished sections
SectionItems == UNION {Range(sections[i].content) : i \in DOMAIN sections}

IsTitleItem(item) == "_TITLE" \in DOMAIN item

IsContentItem(item) == "_CONTENT" \in DOMAIN item

(***************************************************************************)
(* C1: a book that is segmented without error and has one depth-1 title    *)
(* followed by N depth-2 titles gives exactly N sections.                  *)
(***************************************************************************)
C1_SectionCount ==
  (Segmented /\ Cardinality(DocTitlesOfDepth(1)) = 1)
    => Len(sections) = Cardinality(DocTitlesOfDepth(2))

(***************************************************************************)
(* C2: after a successful segmentation the summary is the sequence of all  *)
(* the titles of the book, in the book's order, each once: summary.pop()   *)
(* removes the sentinel's title and no title of the book.                  *)
(***************************************************************************)
C2_SummaryIsDocTitles ==
  Popped => [k \in DOMAIN summary |-> summary[k].ln] = SortedSeq(DocTitles)

(***************************************************************************)
(* C3: the sentinel appended to the lines is never a title of the summary  *)
(* handed over, nor a title or a source line of a content block of a       *)
(* section.                                                                *)
(***************************************************************************)
C3_NoSentinel ==
  /\ Popped => \A k \in DOMAIN summary : summary[k].ln # SentinelPos
  /\ \A item \in SectionItems :
       /\ IsTitleItem(item) => item.ln # SentinelPos
       /\ IsContentItem(item) => SentinelPos \notin Range(item.lns)
  /\ html # Undefined =>
       /\ \A k \in DOMAIN html.summary : html.summary[k].ln # SentinelPos
       /\ \A i \in DOMAIN html.sections :
            \A item \in Range(html.sections[i].content) :
              /\ IsTitleItem(item) => item.ln # SentinelPos
              /\ IsContentItem(item) => SentinelPos \notin Range(item.lns)

\* a book is built whose sentinel closed a section with a content block
C3_Witness ==
  /\ pc = "done"
  /\ Len(sections) >= 1
  /\ \E item \in SectionItems : IsContentItem(item)
  /\ Len(summary) >= 2

(***************************************************************************)
(* C4: the document model of a successful build has its main title set,    *)
(* which is the first entry of the summary and the only title of depth 1;  *)
(* every other title has a depth of 2 or more.                             *)
(***************************************************************************)
C4_OneMainTitle ==
  html # Undefined =>
    /\ html.title # Undefined
    /\ html.summary # <<>>
    /\ html.summary[1] = html.title
    /\ html.title.depth = 1
    /\ \A k \in 2 .. Len(html.summary) : html.summary[k].depth >= 2
    /\ \A i \in DOMAIN html.sections :
         \A item \in Range(html.sections[i].content) :
           IsTitleItem(item) => item.depth >= 2

\* a model with a title, a section and a subtitle was handed to the template
C4_Witness ==
  /\ html # Undefined
  /\ Len(html.summary) >= 3
  /\ Len(html.sections) >= 1

(***************************************************************************)
(* The first line of the book that breaks a placement rule, read from the  *)
(* document alone.                                                         *)
(***************************************************************************)
Min(S) == CHOOSE x \in S : \A y \in S : x <= y

TitlesBefore(k) == {j \in DocTitles : j < k}

IsBlank(k) == trim(lines[k]) = <<>>

\* a title that is the first and not of depth 1, or of depth 1 and not the first
BadTitle(k) ==
  /\ DocIsTitle(k)
  /\ \/ TitlesBefore(k) = {} /\ hashes(lines[k]) # 1
     \/ TitlesBefore(k) # {} /\ hashes(lines[k]) = 1

\* a non-blank line that is no title, with at most one title before it
LooseLine(k) ==
  /\ ~DocIsTitle(k)
  /\ ~IsBlank(k)
  /\ Cardinality(TitlesBefore(k)) <= 1

Offenders == {k \in BookPositions : BadTitle(k) \/ LooseLine(k)}

\* the loop is over, with or without an error
LoopOver == pc \notin {"start", "loop"}

FirstTitleHasDepth(d) ==
  DocTitles # {} /\ hashes(lines[Min(DocTitles)]) = d

(***************************************************************************)
(* C5 as stated: a book whose first title has depth 2 raises the error 9   *)
(* (main title not found) and no output file is written.                   *)
(***************************************************************************)
C5_Original ==
  (LoopOver /\ FirstTitleHasDepth(2))
    => (pc = "error" /\ exitCode = 9 /\ ~written)

(***************************************************************************)
(* C5 amended: a book whose first title has depth 2 raises the error 9     *)
(* when only blank lines come before that title, and the error 11 (content *)
(* outside sections) when a non-blank line comes before it; in both cases  *)
(* the template is not transpiled and no output file is written.           *)
(***************************************************************************)
C5_MissingTitle ==
  (LoopOver /\ FirstTitleHasDepth(2))
    => /\ pc = "error"
       /\ exitCode = IF \A k \in 1 .. (Min(DocTitles) - 1) : IsBlank(k)
                       THEN 9 ELSE 11
       /\ html = Undefined
       /\ ~written

\* the error 9 was raised by a depth-2 title that came after a blank line
C5_Witness ==
  /\ pc = "error"
  /\ exitCode = 9
  /\ FirstTitleHasDepth(2)
  /\ Min(DocTitles) > 1
  /\ pos = Min(DocTitles)

(***************************************************************************)
(* C6 as stated: a book with two titles of depth 1 raises the error 10     *)
(* (duplicate main title).                                                 *)
(***************************************************************************)
C6_Original ==
  (LoopOver /\ Cardinality(DocTitlesOfDepth(1)) >= 2)
    => (pc = "error" /\ exitCode = 10)

(***************************************************************************)
(* C6 amended: a book with two titles of depth 1 is never built.  It       *)
(* raises the error of the first line that breaks a placement rule: the    *)
(* error 10 when that line is the second title of depth 1, the error 9     *)
(* when it is a first title that is not of depth 1, the error 11 when it   *)
(* is a non-blank line that is no title and has at most one title before   *)
(* it.                                                                     *)
(***************************************************************************)
C6_DuplicateTitle ==
  (LoopOver /\ Cardinality(DocTitlesOfDepth(1)) >= 2)
    => /\ pc = "error"
       /\ Offenders # {}
       /\ pos = Min(Offenders)
       /\ exitCode = IF LooseLine(Min(Offenders)) THEN 11
                     ELSE IF TitlesBefore(Min(Offenders)) = {} THEN 9
                     ELSE 10
       /\ html = Undefined
       /\ ~written

\* the error 10 was raised by a second main title that follows a section
C6_Witness ==
  /\ pc = "error"
  /\ exitCode = 10
  /\ Cardinality(DocTitlesOfDepth(1)) >= 2
  /\ Cardinality(DocTitlesOfDepth(2)) >= 1
  /\ hashes(lines[pos]) = 1

(***************************************************************************)
(* C7 as stated: a non-blank line that is no title and lies after the main *)
(* title and before any title of depth 2 raises the error 11 (content      *)
(* outside sections); the loop never goes past such a line, and the line   *)
(* is never pushed to the title buffer nor rendered into a content block.  *)
(***************************************************************************)
TextOutsideSection(k) ==
  /\ k \in BookPositions
  /\ ~DocIsTitle(k)
  /\ ~IsBlank(k)
  /\ \E j \in TitlesBefore(k) : hashes(lines[j]) = 1
  /\ \A j \in TitlesBefore(k) : hashes(lines[j]) # 2

ContentLines(items) ==
  UNION {Range(items[j].lns) : j \in {i \in DOMAIN items : IsContentItem(items[i])}}

C7_Original ==
  \A k \in BookPositions :
    TextOutsideSection(k) =>
      /\ (pc = "error" /\ pos = k) => exitCode = 11
      /\ ~(pc # "start" /\ pos > k)
      /\ \A b \in Range(titleBuff) : b.ln # k
      /\ k \notin ContentLines(sectionBuff)
      /\ \A i \in DOMAIN sections : k \notin ContentLines(sections[i].content)

(***************************************************************************)
(* C8 as stated: the first item of every section is a title of depth 2     *)
(* whose slug is the section's slug, and no other item of the section is   *)
(* a title of depth 2.                                                     *)
(***************************************************************************)
C8_Original ==
  \A i \in DOMAIN sections :
    LET items == sections[i].content
    IN  /\ items # <<>>
        /\ IsTitleItem(items[1])
        /\ items[1].depth = 2
        /\ items[1].slug = sections[i].slug
        /\ \A j \in 2 .. Len(items) :
             IsTitleItem(items[j]) => items[j].depth >= 3

(***************************************************************************)
(* The numbering of the titles as the design states it: a reference that   *)
(* is computed from the sequence of the depths alone.                      *)
(***************************************************************************)
Depths(sum) == [k \in DOMAIN sum |-> sum[k].depth]

Labels(sum) == [k \in DOMAIN sum |-> sum[k].prettydepth]

\* the reference counters of the levels 2..4 after the titles of depths ds
RECURSIVE RefCounters(_)
RefCounters(ds) ==
  IF ds = <<>> THEN [i \in 2 .. 4 |-> 0]
  ELSE LET prev == RefCounters(SubSeq(ds, 1, Len(ds) - 1))
           d    == ds[Len(ds)]
       IN  IF d = 1 THEN prev
           ELSE [i \in 2 .. 4 |-> IF i = d THEN prev[i] + 1
                                  ELSE IF i > d THEN 0
                                  ELSE prev[i]]

\* a number below 100 in decimal
RefNumber(n) ==
  IF n < 10 THEN <<Digits[n + 1]>>
  ELSE <<Digits[(n \div 10) + 1], Digits[(n % 10) + 1]>>

\* the non-zero counters of the levels i..d, each followed by a dot
RECURSIVE RefJoin(_, _, _)
RefJoin(c, i, d) ==
  IF i > d THEN <<>>
  ELSE (IF c[i] # 0 THEN RefNumber(c[i]) \o <<".">> ELSE <<>>)
         \o RefJoin(c, i + 1, d)

\* the reference label of the last of the titles of depths ds
RefLabel(ds) ==
  IF ds[Len(ds)] = 1 THEN <<"0", ".">>
  ELSE RefJoin(RefCounters(ds), 2, ds[Len(ds)])

(***************************************************************************)
(* C9: when the titles start with the main title and have depths in 1..4,  *)
(* the label of every title is the reference label; the depths             *)
(* 1,2,3,2,3,3 give the labels 0. 1. 1.1. 2. 2.1. 2.2.                     *)
(***************************************************************************)
C9_Numbering ==
  (summary # <<>> /\ summary[1].depth = 1
     /\ \A k \in DOMAIN summary : summary[k].depth \in 1 .. 4)
    => /\ \A k \in DOMAIN summary :
            summary[k].prettydepth = RefLabel(SubSeq(Depths(summary), 1, k))
       /\ Depths(summary) = <<1, 2, 3, 2, 3, 3>>
            => Labels(summary) = << <<"0", ".">>,
                                    <<"1", ".">>,
                                    <<"1", ".", "1", ".">>,
                                    <<"2", ".">>,
                                    <<"2", ".", "1", ".">>,
                                    <<"2", ".", "2", ".">> >>

\* the six titles of depths 1,2,3,2,3,3 are in the summary
C9_Witness == Depths(summary) = <<1, 2, 3, 2, 3, 3>>

(***************************************************************************)
(* C10: when the only titles are the main title and titles of depth 2,     *)
(* the k-th title of depth 2 has the label "k."                            *)
(***************************************************************************)
C10_SectionNumbers ==
  (\A k \in DOMAIN summary : summary[k].depth \in {1, 2})
    => \A k \in 1 .. (Len(summary) - 1) :
         /\ summary[k + 1].depth = 2
         /\ summary[k + 1].prettydepth = RefNumber(k) \o <<".">>

\* two titles of depth 2 of the book are numbered, with text between them
C10_Witness ==
  /\ Len(summary) >= 3
  /\ \A k \in DOMAIN summary : summary[k].depth \in {1, 2}
  /\ summary[3].ln # SentinelPos
  /\ summary[3].prettydepth = <<"2", ".">>
  /\ \E item \in SectionItems : IsContentItem(item)

(***************************************************************************)
(* C11: a line that starts with '#' and lies inside a code block (an odd   *)
(* number of fence lines came before it) is never taken as a title: the    *)
(* step that reads it adds nothing to the summary, closes no section,      *)
(* flushes no buffer and advances no counter; the line is pushed to the    *)
(* title buffer as it is.                                                  *)
(***************************************************************************)
FencedHashLine(k) ==
  /\ k \in 1 .. Len(lines)
  /\ startsWith(lines[k], <<"#">>)
  /\ FencesUpTo(k) % 2 = 1

C11_FencedHashLine ==
  [][(pc = "loop" /\ FencedHashLine(pos))
       => /\ summary' = summary
          /\ sections' = sections
          /\ sectionBuff' = sectionBuff
          /\ counter' = counter
          /\ firstSection' = firstSection
          /\ lastSlug' = lastSlug
          /\ mainTitle' = mainTitle
          /\ inCodeBlock' = inCodeBlock
          /\ pc' # "error"
          /\ titleBuff' = Append(titleBuff,
                                 [text |-> lines[pos], ln |-> pos])]_vars

\* a line of the book that starts with '#' was read inside a code block
C11_Witness ==
  \E k \in BookPositions :
    /\ FencedHashLine(k)
    /\ pc # "start"
    /\ pos > k
    /\ \E b \in Range(titleBuff) : b.ln = k

(***************************************************************************)
(* C12: a title buffer whose rendered HTML is empty (blank lines only, or  *)
(* no line at all between two titles) gives no content block: no content   *)
(* block of a section or of the section buffer has a blank html.           *)
(***************************************************************************)
AllItems == SectionItems \cup Range(sectionBuff)

C12_NoBlankContent ==
  \A item \in AllItems :
    IsContentItem(item) =>
      /\ item.html # <<>>
      /\ \E l \in Range(item.html) : trim(l) # <<>>

\* a section was closed with its title alone although blank lines followed it
C12_Witness ==
  \E i \in DOMAIN sections :
    /\ Len(sections[i].content) = 1
    /\ IsTitleItem(sections[i].content[1])
    /\ sections[i].content[1].ln + 1 \in BookPositions
    /\ IsBlank(sections[i].content[1].ln + 1)

(***************************************************************************)
(* The slug as the design states it, character by character: lowercase,    *)
(* a space becomes a dash, any character outside [a-z0-9-_] is dropped.    *)
(* The reference covers the characters of SlugAlphabet and 'Hello World!'. *)
(***************************************************************************)
RefSlugChar(c) ==
  LET low == CASE c = "A" -> "a"
               [] c = "H" -> "h"
               [] c = "W" -> "w"
               [] OTHER   -> c
  IN  IF low = " " THEN <<"-">>
      ELSE IF low \in {"a", "b", "d", "e", "h", "l", "o", "r", "w",
                       "9", "-", "_"}
        THEN <<low>>
        ELSE <<>>

RECURSIVE RefSlug(_)
RefSlug(t) ==
  IF t = <<>> THEN <<>> ELSE RefSlugChar(Head(t)) \o RefSlug(Tail(t))

\* the raw text of a title of the summary
TitleText(t) == t.text[2]

(***************************************************************************)
(* C13: the slug of every title is the reference slug of its text; it      *)
(* holds only characters of [a-z0-9-_], the slug of a slug is that slug,   *)
(* the empty text has the empty slug and 'Hello World!' the slug           *)
(* 'hello-world'.                                                          *)
(***************************************************************************)
C13_Slug ==
  \A k \in DOMAIN summary :
    (summary[k].ln # SentinelPos) =>
      /\ summary[k].slug = RefSlug(TitleText(summary[k]))
      /\ Range(summary[k].slug) \subseteq SlugChars
      /\ makeSlug(summary[k].slug) = summary[k].slug
      /\ TitleText(summary[k]) = <<>> => summary[k].slug = <<>>
      /\ TitleText(summary[k]) = HelloWorld
           => summary[k].slug =
                <<"h","e","l","l","o","-","w","o","r","l","d">>

\* the title 'Hello World!' was given its slug
C13_Witness ==
  /\ summary # <<>>
  /\ TitleText(summary[1]) = HelloWorld
  /\ Len(summary[1].slug) = 11

(***************************************************************************)
(* C14: when a structural error is reported (9 main title not found, 10    *)
(* duplicate main title, 11 content outside sections) the build is         *)
(* abandoned: the template is never transpiled with the document model     *)
(* and the output file is never written.                                   *)
(***************************************************************************)
StructuralError == exitCode \in {9, 10, 11}

C14_NoPartialOutput ==
  StructuralError => (pc = "error" /\ html = Undefined /\ ~written)

\* a duplicate main title was reported after a section had been finished
C14_Witness ==
  /\ pc = "error"
  /\ exitCode = 10
  /\ Len(sections) >= 1
  /\ html = Undefined

(***************************************************************************)
(* C15 as stated: the sentinel closes the last section and the last title  *)
(* buffer of every book.  When the loop is over without error, the title   *)
(* buffer is empty, the section buffer holds the sentinel's title alone,   *)
(* and the non-blank lines that are no titles and come after the first     *)
(* title of depth 2 or more are, each once and in the book's order, the    *)
(* lines of the content blocks of the sections.                            *)
(***************************************************************************)
RECURSIVE Flatten(_)
Flatten(ss) == IF ss = <<>> THEN <<>> ELSE Head(ss) \o Flatten(Tail(ss))

\* the lines rendered into the content blocks of a list of items, in order
RenderedLines(items) ==
  Flatten([j \in DOMAIN items |->
             IF IsContentItem(items[j]) THEN items[j].lns ELSE <<>>])

\* the lines rendered into the content blocks of the sections, in order
SectionsRenderedLines ==
  Flatten([i \in DOMAIN sections |-> RenderedLines(sections[i].content)])

\* the lines of the book that the loop pushes to the title buffer
BufferedLines ==
  {k \in BookPositions :
     /\ ~DocIsTitle(k)
     /\ \E j \in TitlesBefore(k) : hashes(lines[j]) >= 2}

\* the runs of buffered lines that hold a non-blank line
RenderedRuns ==
  {k \in BufferedLines :
     \E n \in BufferedLines :
       /\ ~IsBlank(n)
       /\ \A m \in BookPositions :
            ((k <= m /\ m <= n) \/ (n <= m /\ m <= k)) => ~DocIsTitle(m)}

C15_Original ==
  Segmented =>
    /\ titleBuff = <<>>
    /\ Len(sectionBuff) = 1
    /\ IsTitleItem(sectionBuff[1])
    /\ sectionBuff[1].ln = SentinelPos
    /\ SectionsRenderedLines = SortedSeq(RenderedRuns)

(***************************************************************************)
(* C16 as stated: the section_slug of every title of depth 2 or more is    *)
(* the slug of the last title of depth 2 up to it (its own slug for a      *)
(* title of depth 2), and every title stored in a section has the          *)
(* section's slug as its section_slug.                                     *)
(***************************************************************************)
Max(S) == CHOOSE x \in S : \A y \in S : x >= y

SectionTitlesUpTo(k) == {j \in 1 .. k : summary[j].depth = 2}

C16_Original ==
  /\ \A k \in DOMAIN summary :
       (summary[k].depth >= 2 /\ SectionTitlesUpTo(k) # {})
         => summary[k].section_slug = summary[Max(SectionTitlesUpTo(k))].slug
  /\ \A i \in DOMAIN sections :
       \A item \in Range(sections[i].content) :
         IsTitleItem(item) => item.section_slug = sections[i].slug

(***************************************************************************)
(* A line that starts with '#', outside a code block, and has not the      *)
(* shape 'one or more #, a space, a text'.                                 *)
(***************************************************************************)
Malformed(line) ==
  /\ startsWith(line, <<"#">>)
  /\ \/ hashes(line) = Len(line)
     \/ line[hashes(line) + 1] # " "
     \/ skipSpaces(SubSeq(line, hashes(line) + 1, Len(line))) = <<>>

MalformedAt(k) ==
  /\ k \in BookPositions
  /\ Malformed(lines[k])
  /\ FencesUpTo(k) % 2 = 0

NumberCount(label) ==
  Cardinality({k \in DOMAIN label :
                 /\ label[k] \in Range(Digits)
                 /\ k = 1 \/ label[k - 1] = "."})

\* the non-zero reference counters of the levels 2..4, joined, and a dot
RefDeepLabel(ds) ==
  IF RefJoin(RefCounters(ds), 2, 4) = <<>> THEN <<".">>
  ELSE RefJoin(RefCounters(ds), 2, 4)

C18_Original ==
  \A k \in DOMAIN summary :
    summary[k].depth > 4 =>
      /\ NumberCount(summary[k].prettydepth) <= 3
      /\ summary[k].prettydepth = RefDeepLabel(SubSeq(Depths(summary), 1, k))

(***************************************************************************)
(* C19 as stated: the items of a section are in the book's order.  The     *)
(* content block made of the lines between two titles H and H' comes       *)
(* right after H and before H'; when H' has depth 2 the block is in the    *)
(* section that H' closes, never in the section that H' opens.             *)
(***************************************************************************)
\* the content block at place j of the items lies between its two titles
BlockInPlace(items, j, closed) ==
  LET lns == items[j].lns
  IN  /\ lns # <<>>
      /\ \A n \in 1 .. (Len(lns) - 1) : lns[n + 1] = lns[n] + 1
      /\ j > 1
      /\ IsTitleItem(items[j - 1])
      /\ items[j - 1].ln = lns[1] - 1
      /\ j < Len(items) =>
           /\ IsTitleItem(items[j + 1])
           /\ items[j + 1].ln = lns[Len(lns)] + 1
           /\ items[j + 1].depth >= 3
      /\ (j = Len(items) /\ closed) =>
           /\ startsWith(lines[lns[Len(lns)] + 1], <<"#">>)
           /\ hashes(lines[lns[Len(lns)] + 1]) = 2

ItemsInOrder(items, closed) ==
  \A j \in DOMAIN items :
    IsContentItem(items[j]) => BlockInPlace(items, j, closed)

C19_Original ==
  /\ \A i \in DOMAIN sections : ItemsInOrder(sections[i].content, TRUE)
  /\ ItemsInOrder(sectionBuff, FALSE)

(***************************************************************************)
(* C20: the i-th section has the slug of the i-th title of depth 2 of the  *)
(* book, the title that opened it; while the lines are read, the first     *)
(* title of depth 2 pushes no section and every later one (the sentinel    *)
(* too) pushes one.                                                        *)
(***************************************************************************)
\* the slugs of the depth-2 lines of the books, written out
ExpectedSlug(line) ==
  CASE line = LineSecA -> <<"a">>
    [] line = LineSecB -> <<"b">>

SectionTitlesRead == {k \in DOMAIN summary : summary[k].depth = 2}

C20_SectionSlugs ==
  /\ Len(sections) <= Cardinality(DocTitlesOfDepth(2))
  /\ \A i \in DOMAIN sections :
       sections[i].slug =
         ExpectedSlug(lines[SortedSeq(DocTitlesOfDepth(2))[i]])
  /\ pc \in {"loop", "pop"} =>
       Len(sections) = IF SectionTitlesRead = {} THEN 0
                       ELSE Cardinality(SectionTitlesRead) - 1

\* two sections with different slugs were closed, the second by a third title
C20_Witness ==
  /\ Len(sections) = 2
  /\ sections[1].slug = <<"a">>
  /\ sections[2].slug = <<"b">>

(***************************************************************************)
(* C21: the step that accepts the title of depth 1 gives it the fixed      *)
(* label '0.' and leaves the numbering alone: after it every counter is    *)
(* still zero, and no title buffer was flushed, no section closed, and the *)
(* first-section flag and the last section slug are as before.             *)
(***************************************************************************)
MainTitleAt(k) == DocIsTitle(k) /\ hashes(lines[k]) = 1

C21_MainTitleFrame ==
  [][(pc = "loop" /\ MainTitleAt(pos) /\ pc' # "error")
       => /\ Len(summary') = Len(summary) + 1
          /\ summary'[Len(summary')].prettydepth = <<"0", ".">>
          /\ mainTitle' = summary'[Len(summary')]
          /\ counter = counterInit
          /\ counter' = counterInit
          /\ titleBuff' = titleBuff
          /\ sectionBuff' = sectionBuff
          /\ sections' = sections
          /\ firstSection' = firstSection
          /\ lastSlug' = lastSlug]_vars

\* the main title of the second line was handled and the loop went on
C21_Witness ==
  /\ pc = "loop"
  /\ mainTitle # Undefined
  /\ mainTitle.ln = 2
  /\ mainTitle.prettydepth = <<"0", ".">>
  /\ pos = 3
  /\ counter = counterInit
  /\ firstSection

(***************************************************************************)
(* The comments of the text read, found place by place and independently   *)
(* of the removal: a comment runs from a '<!--' that lies in no earlier    *)
(* comment to the end of the first '-->' that starts after that '<!--'.    *)
(***************************************************************************)
WordAt(i, w) ==
  /\ i + Len(w) - 1 <= Len(source)
  /\ \A n \in DOMAIN w : source[i + n - 1] = w[n]

Closers(a) == {j \in (a + 4) .. Len(source) : WordAt(j, CommentClose)}

Openers(from) ==
  {a \in from .. Len(source) : WordAt(a, CommentOpen) /\ Closers(a) # {}}

RECURSIVE CommentSpans(_)
CommentSpans(from) ==
  IF Openers(from) = {} THEN {}
  ELSE LET a == Min(Openers(from))
           z == Min(Closers(a)) + 2
       IN  {<<a, z>>} \cup CommentSpans(z + 1)

\* the places of the text that lie in one of the comments
InComment(spans) ==
  {i \in DOMAIN source : \E sp \in spans : sp[1] <= i /\ i <= sp[2]}

\* the text outside the comments
Kept(spans) ==
  LET keep == SortedSeq(DOMAIN source \ InComment(spans))
  IN  [k \in DOMAIN keep |-> source[keep[k]]]

\* the places of the text where a word starts outside any comment
Uncommented(spans, w) ==
  {i \in DOMAIN source \ InComment(spans) : WordAt(i, w)}

\* the places of the text where a word lies inside a comment
Commented(spans, w) ==
  {i \in InComment(spans) : WordAt(i, w)}

ZedHeading == <<"#", "#", " ", "Z">>

\* how many times the character c occurs in a sequence of lines
RECURSIVE CountChar(_, _)
CountChar(ls, c) ==
  IF ls = <<>> THEN 0
  ELSE Cardinality({n \in DOMAIN Head(ls) : Head(ls)[n] = c})
         + CountChar(Tail(ls), c)

\* the lines held by the title buffer and by the content blocks
HeldLines ==
  [k \in DOMAIN titleBuff |-> titleBuff[k].text]
    \o Flatten([i \in DOMAIN sections |->
                  Flatten([j \in DOMAIN sections[i].content |->
                     IF IsContentItem(sections[i].content[j])
                       THEN sections[i].content[j].html ELSE <<>>])])
    \o Flatten([j \in DOMAIN sectionBuff |->
                  IF IsContentItem(sectionBuff[j])
                    THEN sectionBuff[j].html ELSE <<>>])

BookSectionTitles ==
  {k \in DOMAIN summary : summary[k].depth = 2 /\ summary[k].ln # SentinelPos}

(***************************************************************************)
(* C22 as stated: the comments are removed from the text before it is     *)
(* split into lines and segmented.  The lines of the loop are the lines of *)
(* the text outside the comments; a heading inside a comment adds no title *)
(* and advances no counter; a text inside a comment reaches no buffer and  *)
(* no content block, and raises no error 11.                               *)
(***************************************************************************)
C22_Original ==
  (pc # "start" /\ lines # <<>>) =>
    LET spans == CommentSpans(1)
    IN  /\ SubSeq(lines, 1, Len(lines) - 1) = split(Kept(spans))
        /\ Cardinality(BookSectionTitles)
             <= Cardinality(Uncommented(spans, ZedHeading))
        /\ counter[2] <= Cardinality(Uncommented(spans, ZedHeading)) + 1
        /\ CountChar(HeldLines, "z")
             <= Cardinality(Uncommented(spans, <<"z">>))
        /\ (pc = "error" /\ exitCode = 11
              /\ Uncommented(spans, <<"z">>) = {})
             => CountChar(<<lines[pos]>>, "z") = 0

(***************************************************************************)
(* C23: in a batch no state of the segmentation is kept from one build to  *)
(* the next.  Every build enters the loop with zeroed counters, an empty   *)
(* summary, no section, empty buffers, the first-section flag set and the  *)
(* code-block flag cleared, whatever the build before left; and a book     *)
(* built after other books gets the document model it got when it was      *)
(* built first, alone.                                                     *)
(***************************************************************************)
C23_NoStateBetweenBuilds ==
  [][/\ (pc = "start" /\ pc' = "loop")
          => /\ counter' = counterInit
             /\ summary' = <<>>
             /\ sections' = <<>>
             /\ sectionBuff' = <<>>
             /\ titleBuff' = <<>>
             /\ mainTitle' = Undefined
             /\ lastSlug' = <<>>
             /\ firstSection' = TRUE
             /\ inCodeBlock' = FALSE
             /\ pos' = 1
     /\ (pc = "transpile" /\ pc' = "write"
           /\ alone # Undefined /\ alone.source = source)
          => html' = alone.model]_vars

\* the third book of a batch is the first one again, built to the same model
C23_Witness ==
  /\ bookIndex = 3
  /\ pc = "done"
  /\ alone # Undefined
  /\ alone.source = source
  /\ html = alone.model
  /\ Len(html.summary) >= 3
  /\ Len(html.sections) >= 1

(***************************************************************************)
(* C24 as stated: the exit codes are mapped one to one to the failures of  *)
(* build().  When a build is abandoned, its exit code is the code of no    *)
(* other failure than the one reported.                                    *)
(***************************************************************************)
Failures ==
  {"noBookName", "unknownBook", "fileNotFound", "readFailed",
   "mainTitleNotFound", "duplicateMainTitle", "contentOutsideSections",
   "templateFolderNotFound", "templateFileNotFound", "templateReadFailed",
   "resourceNotFound", "resourceReadFailed", "writeFailed"}

C24_Original ==
  pc = "error" =>
    /\ message \in Failures
    /\ \A f \in Failures : exitCodeOf(f) = exitCode => f = message

(***************************************************************************)
(* C25: the slugs are not made unique.  A title of depth 2 or more that    *)
(* follows the main title is accepted whatever its slug: taken by an       *)
(* earlier title, or empty.  It is appended to the summary with the        *)
(* reference slug of its own text, the titles before it are kept as they   *)
(* are, and a section that it closes is pushed under the slug of the title *)
(* that opened it, taken or not.                                           *)
(***************************************************************************)
LaterTitleAt(k) ==
  /\ k \in BookPositions
  /\ DocIsTitle(k)
  /\ hashes(lines[k]) >= 2
  /\ TitlesBefore(k) # {}

C25_NoDedup ==
  [][(pc = "loop" /\ LaterTitleAt(pos))
       => /\ pc' # "error"
          /\ Len(summary') = Len(summary) + 1
          /\ SubSeq(summary', 1, Len(summary)) = summary
          /\ summary'[Len(summary')].ln = pos
          /\ TitleText(summary'[Len(summary')])
               = skipSpaces(SubSeq(lines[pos], hashes(lines[pos]) + 1,
                                   Len(lines[pos])))
          /\ summary'[Len(summary')].slug
               = RefSlug(TitleText(summary'[Len(summary')]))
          /\ (hashes(lines[pos]) = 2 /\ ~firstSection)
               => /\ Len(sections') = Len(sections) + 1
                  /\ SubSeq(sections', 1, Len(sections)) = sections
                  /\ sections'[Len(sections')].slug = lastSlug]_vars

\* the titles 'A' and 'a' gave two sections of the slug 'a', and a title
\* with an empty slug is in the summary
C25_Witness ==
  /\ Len(sections) = 2
  /\ sections[1].slug = <<"a">>
  /\ sections[2].slug = <<"a">>
  /\ TitleText(sections[1].content[1]) # TitleText(sections[2].content[1])
  /\ \E k \in DOMAIN summary :
       summary[k].slug = <<>> /\ summary[k].ln # SentinelPos

(***************************************************************************)
(* C26: the structural errors are found in the order of the lines.  The    *)
(* lines that break a rule are read from the document: a first title that  *)
(* is not of depth 1, a title of depth 1 that is not the first title, a    *)
(* non-blank line that is no title and has at most one title before it     *)
(* (the sentinel is a line as the others).  The loop never goes past the   *)
(* first such line; it stops there with the error of that line's rule,     *)
(* and nothing of that line or of a later line is in the summary, the      *)
(* buffers or the sections.  A book without such a line raises no          *)
(* structural error.                                                       *)
(***************************************************************************)
RuleBreakers == {k \in DOMAIN lines : BadTitle(k) \/ LooseLine(k)}

RuleCode(k) ==
  IF LooseLine(k) THEN 11
  ELSE IF TitlesBefore(k) = {} THEN 9
  ELSE 10

\* the lines the loop has taken into its variables
TakenLines ==
  {summary[k].ln : k \in DOMAIN summary}
    \cup {titleBuff[k].ln : k \in DOMAIN titleBuff}
    \cup ContentLines(sectionBuff)
    \cup UNION {ContentLines(sections[i].content) : i \in DOMAIN sections}

C26_ErrorsInLineOrder ==
  (pc # "start" /\ lines # <<>>) =>
    LET breakers == RuleBreakers
        first    == Min(breakers)
    IN  /\ breakers = {} => (pc # "error" \/ exitCode \notin {9, 10, 11})
        /\ breakers # {} =>
             /\ pc \in {"loop", "error"}
             /\ pos <= first
             /\ pc = "error" =>
                  /\ pos = first
                  /\ exitCode = RuleCode(first)
                  /\ html = Undefined
             /\ \A k \in TakenLines : k < first

\* the error 11 of the second line was raised, not the error 10 of the third
C26_Witness ==
  /\ pc = "error"
  /\ exitCode = 11
  /\ pos = Min(RuleBreakers)
  /\ \E k \in RuleBreakers : k > pos /\ BadTitle(k) /\ RuleCode(k) = 10
  /\ \A k \in TakenLines : k < pos
  /\ Len(summary) = 1

(***************************************************************************)
(* The summaries without a skipped level: the main title first, then a     *)
(* title of depth 2, all depths at most 4, and no title more than one      *)
(* level below the title before it.                                        *)
(***************************************************************************)
NoSkippedLevel(sum) ==
  /\ Len(sum) >= 2
  /\ sum[1].depth = 1
  /\ sum[2].depth = 2
  /\ \A k \in 2 .. Len(sum) : sum[k].depth \in 2 .. 4
  /\ \A k \in 3 .. Len(sum) : sum[k].depth <= sum[k - 1].depth + 1

DistinctLabels(sum) ==
  \A j, k \in DOMAIN sum : j # k => sum[j].prettydepth # sum[k].prettydepth

(***************************************************************************)
(* C27 as stated: in such a summary the labels of all the titles are       *)
(* pairwise distinct, and a title of depth d has exactly d - 1 numbers in  *)
(* its label.                                                              *)
(***************************************************************************)
C27_Original ==
  NoSkippedLevel(summary) =>
    /\ DistinctLabels(summary)
    /\ \A k \in DOMAIN summary :
         NumberCount(summary[k].prettydepth) = summary[k].depth - 1

(***************************************************************************)
(* C27 amended: in such a summary the labels of all the titles are         *)
(* pairwise distinct; a title of depth d >= 2 has exactly d - 1 numbers in *)
(* its label, and the main title has the fixed label '0.', which is one    *)
(* number.                                                                 *)
(***************************************************************************)
C27_UniqueLabels ==
  NoSkippedLevel(summary) =>
    /\ DistinctLabels(summary)
    /\ summary[1].prettydepth = <<"0", ".">>
    /\ NumberCount(summary[1].prettydepth) = 1
    /\ \A k \in 2 .. Len(summary) :
         NumberCount(summary[k].prettydepth) = summary[k].depth - 1

\* seven titles without a skipped level, down to the depth 4 and up again
C27_Witness ==
  /\ NoSkippedLevel(summary)
  /\ Len(summary) = 7
  /\ \E k \in DOMAIN summary : summary[k].depth = 4
  /\ Cardinality({k \in DOMAIN summary : summary[k].depth = 3}) >= 2
  /\ Cardinality({k \in DOMAIN summary : summary[k].depth = 2}) >= 2

(***************************************************************************)
(* C28: in every state of the line loop (between two lines, at its end,    *)
(* and where a line was refused) the title buffer is empty while the       *)
(* summary has at most one entry, and the code-block flag is the parity of *)
(* the number of the lines read so far that start with a fence: no other   *)
(* line changes it.                                                        *)
(***************************************************************************)
\* the number of the lines the loop has read, the refused one too
LinesRead == IF pc = "loop" THEN pos - 1 ELSE pos

InLineLoop ==
  \/ pc \in {"loop", "pop"}
  \/ pc = "error" /\ exitCode \in {9, 10, 11}

C28_LoopInvariant ==
  InLineLoop =>
    /\ Len(summary) <= 1 => titleBuff = <<>>
    /\ inCodeBlock = (FencesUpTo(LinesRead) % 2 = 1)

\* a blank line was read before the titles and a code block is open
C28_Witness ==
  /\ pc = "loop"
  /\ IsBlank(1)
  /\ Len(summary) = 2
  /\ inCodeBlock
  /\ FencesUpTo(LinesRead) = 1
  /\ titleBuff # <<>>

====
